---- MODULE Spec2Model ----
(***************************************************************************)
(* website_monitor: the periodic checker of website_monitor.py (the        *)
(* configuration snapshot, the scheduler loop, a round of checks and the   *)
(* single check of one target) with the record sink of db_utils.py.        *)
(*                                                                         *)
(* Python values are modelled by what the interpreter does with them:      *)
(*   - a dict is a function from its keys (strings) to values;             *)
(*   - a candidate check period is a tagged record (see PeriodVals);       *)
(*   - a str or bytes value is a sequence of one-character strings;        *)
(*   - an optional value is None or Some(v).                               *)
(* Time is counted in whole seconds.                                       *)
(***************************************************************************)
EXTENDS Integers, Sequences, FiniteSets, TLC

VARIABLES
    file,            \* config.json on disk: [ok |-> FALSE] or [ok |-> TRUE, doc |-> dict]
    config_store,    \* Monitor.config_store: [check_period, websites]
    last_load,       \* arguments and outcome of the latest WebMonitorConfigObject(...)
    next_call,       \* Monitor.next_call
    now,             \* time.time()
    pc,              \* position of the control flow inside Monitor.start_watch
    timer_at,        \* when the pending threading.Timer fires
    threads,         \* _start_checks: the local list `threads` (webnames, in start order)
    joined,          \* _start_checks: how many entries of `threads` have been joined
    workers,         \* per webname: the thread running _perform_checks
    website_checks,  \* rows of table website_checks (the record sink)
    cycle,           \* number of start_watch invocations begun so far
    anchor0,         \* history: next_call as set by Monitor.__init__
    period_sum,      \* history: sum of the check periods of the rounds begun so far
    round_base,      \* history: number of rows of website_checks when the round began
    log,             \* the round markers written to the log file, oldest first
    website_configs, \* rows of table website_configs
    last_upsert,     \* history: arguments of the latest insert_webcheck_config call
    latest           \* history: per webname, the url and content of its latest call

db_vars == <<website_configs, last_upsert, latest>>

vars == <<file, config_store, last_load, next_call, now, pc, timer_at, threads,
          joined, workers, website_checks, cycle, anchor0, period_sum, round_base,
          log, db_vars>>

-----------------------------------------------------------------------------
(* Bounds of the model. *)

MaxTime == 3
MaxCycles == 2
MaxStored == 2

(* DEFAULT_CHECK_PERIOD *)
DEFAULT_CHECK_PERIOD == 3600

-----------------------------------------------------------------------------
(* Python values. *)

None == [has |-> FALSE]
Some(v) == [has |-> TRUE, v |-> v]

(* Candidate check periods, as json.load or the command line deliver them:     *)
(*   missing  the key is not in the document                                  *)
(*   none     JSON null, or no -i option                                      *)
(*   int      the integer n                                                   *)
(*   numstr   a string that spells the integer n ("2")                        *)
(*   junkstr  a string that spells no integer ("abc", "2.5")                  *)
(*   float    a number with integer part n and a non-zero fraction (2.5)      *)
PyNone == [kind |-> "none", n |-> 0]
PyMissing == [kind |-> "missing", n |-> 0]
PyInt(n) == [kind |-> "int", n |-> n]
PyNumStr(n) == [kind |-> "numstr", n |-> n]
PyJunkStr == [kind |-> "junkstr", n |-> 0]
PyFloat(n) == [kind |-> "float", n |-> n]

PeriodInts == (-1)..MaxStored

PeriodVals ==
    {PyNone, PyJunkStr}
        \cup {PyInt(n) : n \in PeriodInts \cup {30}}
        \cup {PyNumStr(n) : n \in {0, MaxStored}}
        \cup {PyFloat(n) : n \in {0, MaxStored}}

(* int(x): [ok, v]; not ok when int() raises (TypeError for None, ValueError *)
(* for a string that spells no integer); a float is truncated toward zero.   *)
int(x) ==
    CASE x.kind = "int" -> [ok |-> TRUE, v |-> x.n]
      [] x.kind = "numstr" -> [ok |-> TRUE, v |-> x.n]
      [] x.kind = "float" -> [ok |-> TRUE, v |-> x.n]
      [] OTHER -> [ok |-> FALSE, v |-> 0]

-----------------------------------------------------------------------------
(* WebMonitorConfigObject *)

is_positive_int_ge0(i) == int(i).ok /\ int(i).v >= 0

(* is_positive_int: int(i) > 0, False when int() raises *)

is_positive_int(i) == int(i).ok /\ int(i).v > 0

(* dict.pop(key, default): <<value, dict without key>> *)
DictPop(d, key, default) ==
    IF key \in DOMAIN d
    THEN <<d[key], [k \in DOMAIN d \ {key} |-> d[k]]>>
    ELSE <<default, d>>

extract_websites_keep_all(configs) == configs

(* extract_websites: a shallow copy of configs without the entries that have *)
(* no 'url' key.                                                              *)
extract_websites(configs) ==
    [k \in {key \in DOMAIN configs : "url" \in DOMAIN configs[key]} |-> configs[k]]

(* The check_period setter: the stored value after `self.check_period = val`, *)
(* given the value stored before.                                             *)
check_period_setter(old, val) ==
    IF ~int(val).ok THEN old
    ELSE IF int(val).v < 0 THEN old
    ELSE int(val).v

(* int(provided_check_period) with the bare except that yields 0 *)
IntOrZero(x) == IF int(x).ok THEN int(x).v ELSE 0

(* set_check_period_and_web_data: the snapshot built from the dict `configs`, *)
(* with `configs` as the call leaves it. check_period -1 stands for an        *)
(* attribute that was never set.                                              *)
set_check_period_and_web_data(configs, provided_check_period, defer_to_configs) ==
    LET provided == IntOrZero(provided_check_period)
        popN == DictPop(configs, "check_period", PyNone)
        pop0 == DictPop(configs, "check_period", PyInt(0))
        stored == IntOrZero(pop0[1])
    IN  IF provided > 0
        THEN [check_period |->
                  IF defer_to_configs /\ is_positive_int(popN[1])
                  THEN check_period_setter(-1, popN[1])
                  ELSE check_period_setter(-1, PyInt(provided)),
              websites |-> extract_websites(popN[2]),
              configs |-> popN[2]]
        ELSE IF stored > 0
        THEN [check_period |-> check_period_setter(-1, PyInt(stored)),
              websites |-> extract_websites(pop0[2]),
              configs |-> pop0[2]]
        ELSE [check_period |-> check_period_setter(-1, PyInt(DEFAULT_CHECK_PERIOD)),
              websites |-> extract_websites(pop0[2]),
              configs |-> pop0[2]]

(* WebMonitorConfigObject(check_period, defer_to_configs): json.load of the  *)
(* file, then set_check_period_and_web_data; raises when the file cannot be  *)
(* loaded.                                                                    *)
WebMonitorConfigObject(f, check_period, defer_to_configs) ==
    IF ~f.ok
    THEN [raised |-> TRUE]
    ELSE [raised |-> FALSE,
          obj |-> set_check_period_and_web_data(f.doc, check_period, defer_to_configs)]

-----------------------------------------------------------------------------
(* The configuration documents and the command line the model draws from. *)

Names == {"a", "b"}

(* the order in which the document lists the names (dict insertion order) *)
NameOrder == <<"a", "b">>

UrlOf == [a |-> "http://x", b |-> "http://y"]

(* content requirements: "", "ok", and "(" which is no regular expression *)
Patterns == {<<>>, <<"o", "k">>, <<"(">>}

EmptyDict == [k \in {} |-> None]

(* the definitions a document may give for a name *)
Entries(name) ==
    {EmptyDict, [url |-> UrlOf[name]]}
        \cup {[url |-> UrlOf[name], content |-> p] : p \in Patterns}

OptEntries(name) == {None} \cup {Some(e) : e \in Entries(name)}

Doc(p, es) ==
    [k \in (IF p = PyMissing THEN {} ELSE {"check_period"})
               \cup {n \in Names : es[n].has}
        |-> IF k = "check_period" THEN p ELSE es[k].v]

Docs ==
    {Doc(p, es) : p \in PeriodVals \cup {PyMissing},
                  es \in {f \in [Names -> UNION {OptEntries(n) : n \in Names}] :
                              \A n \in Names : f[n] \in OptEntries(n)}}

(* The documents of the scheduler's runs: every candidate period with the *)
(* two plain targets, and every choice of entries with the period 1.        *)
SchedDocs ==
    {d \in Docs :
        \/ \A n \in Names : n \in DOMAIN d /\ d[n] = [url |-> UrlOf[n]]
        \/ "check_period" \in DOMAIN d /\ d["check_period"] = PyInt(1)}

(* parse_cl_args: the string given with -i, or None *)
CliVals == {PyNone, PyJunkStr} \cup {PyNumStr(n) : n \in {0, MaxStored}}

-----------------------------------------------------------------------------
(* HTTP: what requests.get can deliver. *)

Statuses == {200, 404}

(* response bodies (bytes); "\xff" is a byte that is no UTF-8 *)
Bodies == {<<"n", "o">>, <<"O", "\\xff", "K">>}

Elapsed == {1}

Responses == [status : Statuses, content : Bodies, elapsed : Elapsed]

NoResponse == [status |-> 0, content |-> <<>>, elapsed |-> 0]

(* requests.Response.__bool__ is Response.ok: no 4xx or 5xx status *)
ResponseOk(response) == response.status < 400

(* bytes.decode('utf-8', 'ignore') drops the bytes that are no UTF-8 *)
Decode(bytes) == SelectSeq(bytes, LAMBDA c : c # "\\xff")

Lower(c) == CASE c = "O" -> "o" [] c = "K" -> "k" [] OTHER -> c

LowerSeq(s) == [i \in 1..Len(s) |-> Lower(s[i])]

(* re.compile fails on an unbalanced parenthesis *)
ReCompiles(pattern) == \A i \in 1..Len(pattern) : pattern[i] # "("

(* re.search(pattern, text, re.IGNORECASE) for a pattern of literal characters *)
ReSearch(pattern, text) ==
    \E i \in 0..(Len(text) - Len(pattern)) :
        \A j \in 1..Len(pattern) : Lower(text[i + j]) = Lower(pattern[j])

-----------------------------------------------------------------------------
(* db_utils: the record sink. *)

(* the names module db_utils defines *)
DbUtilsNames ==
    {"DB_NAME", "DB_TABLE_NAME", "get_connection", "create_tables",
     "insert_webcheck_record", "new_record", "modification", "redundant",
     "is_in_database", "insert_webcheck_config", "get_all_webcheck_records",
     "get_all_webcheck_configs"}

Row(webname, url, request_time, status, response_time, requirements, error) ==
    [webname |-> webname, url |-> url, request_time |-> request_time,
     status |-> status, response_time |-> response_time,
     requirements |-> requirements, error |-> error]

(* insert_webcheck_record: one more row in website_checks *)
insert_webcheck_record(table, row) == Append(table, row)

(* The call db_utils.record_insert(...) of website_monitor.py: the attribute *)
(* lookup on the module raises AttributeError for a name db_utils does not   *)
(* define.                                                                   *)
record_insert(table, row) ==
    IF "record_insert" \in DbUtilsNames
    THEN [exc |-> "", table |-> insert_webcheck_record(table, row)]
    ELSE [exc |-> "AttributeError", table |-> table]

(* A row of website_configs: (id, webname, url, content) *)
ConfigRow(id, webname, url, content) ==
    [id |-> id, webname |-> webname, url |-> url, content |-> content]

is_in_database_url_only(table, webname, url, content) ==
    LET found == {i \in 1..Len(table) : table[i].webname = webname}
        first == CHOOSE i \in found : \A j \in found : i <= j
    IN  IF found = {} THEN "new_record"
        ELSE IF table[first].url # url THEN "modification"
        ELSE "redundant"

is_in_database_never_found(table, webname, url, content) == "new_record"

(* is_in_database: the verdict of the first row, in SELECT order, that has *)
(* the webname                                                              *)
is_in_database(table, webname, url, content) ==
    LET found == {i \in 1..Len(table) : table[i].webname = webname}
        first == CHOOSE i \in found : \A j \in found : i <= j
    IN  IF found = {} THEN "new_record"
        ELSE IF table[first].url # url \/ table[first].content # content
        THEN "modification"
        ELSE "redundant"

(* insert_webcheck_config: the table after the call. INSERT gives the new  *)
(* row the next id; UPDATE ... WHERE webname = ? rewrites every row of the *)
(* name.                                                                    *)
insert_webcheck_config(table, webname, url, content) ==
    LET candidate_rec == is_in_database(table, webname, url, content)
    IN  IF candidate_rec = "redundant" THEN table
        ELSE IF candidate_rec = "new_record"
        THEN Append(table, ConfigRow(Len(table) + 1, webname, url, content))
        ELSE [i \in 1..Len(table) |->
                 IF table[i].webname = webname
                 THEN [table[i] EXCEPT !.url = url, !.content = content]
                 ELSE table[i]]

-----------------------------------------------------------------------------
(* Monitor: one check. Exceptions are named by their class;                *)
(* RequirementsNotFulfilled is the class imported from wm_exceptions.      *)

(* check_requirements: "" when it returns True, else the exception it raises. *)
(* re.search runs before the test for an absent requirement.                  *)
check_requirements(response, content_requirements) ==
    LET response_content == Decode(response.content)
    IN  IF ~content_requirements.has THEN "TypeError"
        ELSE IF ~ReCompiles(content_requirements.v) THEN "error"
        ELSE IF Len(content_requirements.v) = 0
                \/ ReSearch(content_requirements.v, response_content)
        THEN ""
        ELSE "RequirementsNotFulfilled"

(* make_request, given what requests.get did: got.failed (a RequestException) *)
(* or got.response. [exc, response, table].                                   *)
make_request(table, url, webname, got, t) ==
    IF got.failed
    THEN LET ins == record_insert(table,
                        Row(webname, url, Some(t), None, None, None, Some("error_msg")))
         IN  [exc |-> ins.exc, response |-> None, table |-> ins.table]
    ELSE [exc |-> "", response |-> Some(got.response), table |-> table]

(* _perform_checks after make_request returned `response`: [exc, table] *)
perform_checks_tail(table, url, content_requirements, webname, response, t) ==
    IF ~response.has \/ ~ResponseOk(response.v)
    THEN [exc |-> "", table |-> table]
    ELSE LET response_time == response.v.elapsed
             e == check_requirements(response.v, content_requirements)
             ins(req) == record_insert(table,
                             Row(webname, url, Some(t), Some(response.v.status),
                                 Some(response_time), Some(req), None))
         IN  IF e = "RequirementsNotFulfilled" THEN ins(0)
             ELSE IF e = "" THEN ins(1)
             ELSE [exc |-> e, table |-> table]

IdleWorker ==
    [st |-> "idle", url |-> "", content_requirements |-> None,
     failed |-> FALSE, response |-> NoResponse, exc |-> ""]

TerminatedOnlyReturned == {"returned"}

TerminatedEarly == {"responded", "returned", "raised"}

TerminatedAtOnce == {"started", "responded", "returned", "raised"}

(* the states of a thread that has ended: its target returned, or an exception *)
(* left it (threading prints the traceback and the thread is over)             *)
Terminated == {"returned", "raised"}

Finish(w, exc) == [w EXCEPT !.st = IF exc = "" THEN "returned" ELSE "raised", !.exc = exc]

(* A worker thread: requests.get completes and make_request handles it; the *)
(* thread ends here when make_request raises or returns None.                *)
WorkerRequest(n) ==
    /\ workers[n].st = "started"
    /\ \E got \in {[failed |-> TRUE, response |-> NoResponse]}
                    \cup {[failed |-> FALSE, response |-> r] : r \in Responses} :
         LET w == workers[n]
             m == make_request(website_checks, w.url, n, got, now)
             w1 == [w EXCEPT !.failed = got.failed, !.response = got.response]
         IN  /\ website_checks' = m.table
             /\ workers' = [workers EXCEPT ![n] =
                    IF m.exc # "" \/ ~m.response.has
                    THEN Finish(w1, m.exc)
                    ELSE [w1 EXCEPT !.st = "responded"]]
    /\ UNCHANGED <<file, config_store, last_load, next_call, now, pc, timer_at,
                   threads, joined, cycle, anchor0, period_sum, round_base,
                   log, db_vars>>

(* A worker thread: the rest of _perform_checks *)
WorkerCheck(n) ==
    /\ workers[n].st = "responded"
    /\ LET w == workers[n]
           r == perform_checks_tail(website_checks, w.url, w.content_requirements,
                                    n, Some(w.response), now)
       IN  /\ website_checks' = r.table
           /\ workers' = [workers EXCEPT ![n] = Finish(w, r.exc)]
    /\ UNCHANGED <<file, config_store, last_load, next_call, now, pc, timer_at,
                   threads, joined, cycle, anchor0, period_sum, round_base,
                   log, db_vars>>

-----------------------------------------------------------------------------
(* Monitor: the scheduler and a round. *)

Files == {[ok |-> FALSE]} \cup {[ok |-> TRUE, doc |-> d] : d \in SchedDocs}

Snapshot(obj) == [check_period |-> obj.check_period, websites |-> obj.websites]

Load(f, check_period, defer_to_configs) ==
    LET c == WebMonitorConfigObject(f, check_period, defer_to_configs)
    IN  [check_period |-> check_period, defer |-> defer_to_configs, file |-> f,
         raised |-> c.raised,
         configs |-> IF c.raised THEN EmptyDict ELSE c.obj.configs,
         snapshot |-> IF c.raised THEN [check_period |-> -1, websites |-> EmptyDict]
                      ELSE Snapshot(c.obj)]

(* Monitor(WebMonitorConfigObject(check_period=interval)) as constructed in *)
(* main: the snapshot is built without defer, Monitor.__init__ sets         *)
(* next_call = time.time(), and start_watch is about to run. (main itself   *)
(* calls db_utils.create_table() first, a name db_utils does not define;    *)
(* the model starts from the objects, as a caller of Monitor gets them.)    *)
InitWith(docs, intervals) ==
    /\ \E d \in docs, interval \in intervals :
         /\ file = [ok |-> TRUE, doc |-> d]
         /\ last_load = Load(file, interval, FALSE)
         /\ config_store = last_load.snapshot
    /\ now = 0
    /\ next_call = now
    /\ anchor0 = next_call
    /\ pc = "hot_load"
    /\ timer_at = 0
    /\ threads = <<>>
    /\ joined = 0
    /\ workers = [n \in Names |-> IdleWorker]
    /\ website_checks = <<>>
    /\ cycle = 0
    /\ period_sum = 0
    /\ round_base = 0
    /\ log = <<>>
    /\ website_configs = <<>>
    /\ last_upsert = None
    /\ latest = [n \in Names |-> None]

Init == InitWith(SchedDocs, CliVals)

ConfigStoreAfterPartial(load) == load.snapshot

(* self.config_store = WebMonitorConfigObject(...): the assignment happens *)
(* only when the constructor returns                                        *)
ConfigStoreAfter(load) == IF load.raised THEN config_store ELSE load.snapshot

(* hot_load_config, first statement of start_watch; an exception of the *)
(* constructor leaves start_watch.                                       *)
hot_load_config ==
    /\ pc = "hot_load"
    /\ last_load' = Load(file, PyInt(config_store.check_period), TRUE)
    /\ cycle' = cycle + 1
    /\ config_store' = ConfigStoreAfter(last_load')
    /\ pc' = IF last_load'.raised THEN "crashed" ELSE "start_checks"
    /\ UNCHANGED <<file, next_call, now, timer_at, threads, joined, workers,
                   website_checks, anchor0, period_sum, round_base,
                   log, db_vars>>

(* _start_checks up to the loop: the round-start marker, threads = [] *)
StartChecks ==
    /\ pc = "start_checks"
    /\ pc' = "dispatch"
    /\ threads' = <<>>
    /\ joined' = 0
    /\ workers' = [n \in Names |-> IdleWorker]
    /\ period_sum' = period_sum + config_store.check_period
    /\ round_base' = Len(website_checks)
    /\ log' = Append(log, "start")
    /\ UNCHANGED <<file, config_store, last_load, next_call, now, timer_at,
                   website_checks, cycle, anchor0, db_vars>>

(* websites.items() in insertion order *)
Items(websites) == SelectSeq(NameOrder, LAMBDA n : n \in DOMAIN websites)

(* one iteration of the loop that starts the threads *)
DispatchOne ==
    /\ pc = "dispatch"
    /\ Len(threads) < Len(Items(config_store.websites))
    /\ LET webname == Items(config_store.websites)[Len(threads) + 1]
           web_data == config_store.websites[webname]
       IN  /\ threads' = Append(threads, webname)
           /\ workers' = [workers EXCEPT ![webname] =
                  [IdleWorker EXCEPT
                      !.st = "started",
                      !.url = web_data.url,
                      !.content_requirements =
                          IF "content" \in DOMAIN web_data
                          THEN Some(web_data.content) ELSE None]]
    /\ UNCHANGED <<file, config_store, last_load, next_call, now, pc, timer_at,
                   joined, website_checks, cycle, anchor0, period_sum, round_base,
                   log, db_vars>>

DispatchDone ==
    /\ pc = "dispatch"
    /\ Len(threads) = Len(Items(config_store.websites))
    /\ pc' = "join"
    /\ UNCHANGED <<file, config_store, last_load, next_call, now, timer_at, threads,
                   joined, workers, website_checks, cycle, anchor0, period_sum, round_base,
                   log, db_vars>>

(* t.join() returns once thread t has ended *)
JoinOne ==
    /\ pc = "join"
    /\ joined < Len(threads)
    /\ workers[threads[joined + 1]].st \in Terminated
    /\ joined' = joined + 1
    /\ UNCHANGED <<file, config_store, last_load, next_call, now, pc, timer_at,
                   threads, workers, website_checks, cycle, anchor0, period_sum, round_base,
                   log, db_vars>>

(* the round-end marker; _start_checks returns and its threads are gone *)
JoinDone ==
    /\ pc = "join"
    /\ joined = Len(threads)
    /\ pc' = "advance"
    /\ threads' = <<>>
    /\ joined' = 0
    /\ workers' = [n \in Names |-> IdleWorker]
    /\ log' = Append(log, "end")
    /\ UNCHANGED <<file, config_store, last_load, next_call, now, timer_at,
                   website_checks, cycle, anchor0, period_sum, round_base, db_vars>>

AdvanceFromNow == now + config_store.check_period

(* self.next_call += self.config_store.check_period *)
AdvanceNextCall == next_call + config_store.check_period

Advance ==
    /\ pc = "advance"
    /\ next_call' = AdvanceNextCall
    /\ pc' = "arm"
    /\ UNCHANGED <<file, config_store, last_load, now, timer_at, threads, joined,
                   workers, website_checks, cycle, anchor0, period_sum, round_base,
                   log, db_vars>>

(* threading.Timer(self.next_call - time.time(), self.start_watch).start(): *)
(* a timer with a negative interval fires at once                           *)
ArmTimer ==
    /\ pc = "arm"
    /\ timer_at' = IF next_call > now THEN next_call ELSE now
    /\ pc' = "timer"
    /\ UNCHANGED <<file, config_store, last_load, next_call, now, threads, joined,
                   workers, website_checks, cycle, anchor0, period_sum, round_base,
                   log, db_vars>>

(* the timer thread calls start_watch *)
TimerFire ==
    /\ pc = "timer"
    /\ now >= timer_at
    /\ cycle < MaxCycles
    /\ pc' = "hot_load"
    /\ UNCHANGED <<file, config_store, last_load, next_call, now, timer_at, threads,
                   joined, workers, website_checks, cycle, anchor0, period_sum, round_base,
                   log, db_vars>>

(* The clock. Time passes while the control flow waits (in join, for the *)
(* timer); the statements between take no time.                          *)
Tick ==
    /\ pc \in {"join", "timer"}
    /\ now < MaxTime
    /\ now' = now + 1
    /\ UNCHANGED <<file, config_store, last_load, next_call, pc, timer_at, threads,
                   joined, workers, website_checks, cycle, anchor0, period_sum, round_base,
                   log, db_vars>>

(* the operator edits config.json; the program reads it in hot_load_config only *)
EditConfig ==
    /\ pc = "timer"
    /\ cycle < MaxCycles
    /\ \E f \in Files : f # file /\ file' = f
    /\ UNCHANGED <<config_store, last_load, next_call, now, pc, timer_at, threads,
                   joined, workers, website_checks, cycle, anchor0, period_sum, round_base,
                   log, db_vars>>

Next ==
    \/ hot_load_config
    \/ StartChecks
    \/ DispatchOne
    \/ DispatchDone
    \/ \E n \in Names : WorkerRequest(n)
    \/ \E n \in Names : WorkerCheck(n)
    \/ JoinOne
    \/ JoinDone
    \/ Advance
    \/ ArmTimer
    \/ TimerFire
    \/ Tick
    \/ EditConfig

Spec == Init /\ [][Next]_vars

-----------------------------------------------------------------------------
(* The constructor on its own: every document, every override, both values *)
(* of defer_to_configs.                                                     *)

OverrideVals == PeriodVals \cup {PyInt(DEFAULT_CHECK_PERIOD)}

LoadInit == InitWith(Docs, CliVals)

(* WebMonitorConfigObject(check_period, defer_to_configs) on the file *)
Construct ==
    /\ \E check_period \in OverrideVals, defer_to_configs \in BOOLEAN :
         last_load' = Load(file, check_period, defer_to_configs)
    /\ ~last_load'.raised
    /\ config_store' = last_load'.snapshot
    /\ UNCHANGED <<file, next_call, now, pc, timer_at, threads, joined, workers,
                   website_checks, cycle, anchor0, period_sum, round_base,
                   log, db_vars>>

LoadNext == Construct

LoadSpec == LoadInit /\ [][LoadNext]_vars

-----------------------------------------------------------------------------
(* The table website_configs on its own: calls of insert_webcheck_config, *)
(* one after the other, on a table that starts empty.                      *)

Urls == {UrlOf[n] : n \in Names}

Contents == {None} \cup {Some(p) : p \in Patterns}

DbInit == InitWith({EmptyDict}, {PyNone})

InsertWebcheckConfig ==
    /\ \E webname \in Names, url \in Urls, content \in Contents :
         /\ website_configs' = insert_webcheck_config(website_configs, webname, url, content)
         /\ last_upsert' = Some([webname |-> webname, url |-> url, content |-> content])
         /\ latest' = [latest EXCEPT ![webname] = Some([url |-> url, content |-> content])]
    /\ UNCHANGED <<file, config_store, last_load, next_call, now, pc, timer_at, threads,
                   joined, workers, website_checks, cycle, anchor0, period_sum,
                   round_base, log>>

DbNext == InsertWebcheckConfig

DbSpec == DbInit /\ [][DbNext]_vars

-----------------------------------------------------------------------------
(* Notions the properties share. *)

(* every thread of the round has been joined: the round is at its end *)
RoundEnded == pc = "join" /\ joined = Len(threads)

(* the rows the current round has written for webname n *)
RowsFor(n) ==
    {i \in (round_base + 1)..Len(website_checks) : website_checks[i].webname = n}

(* the thread of n has ended *)
Ended(n) == workers[n].st \in Terminated

(* the thread of n has ended and its GET delivered a response *)
EndedWithResponse(n) == Ended(n) /\ ~workers[n].failed /\ workers[n].response # NoResponse

(* the thread of n has ended and its GET failed at the transport level *)
EndedWithFailure(n) == Ended(n) /\ workers[n].failed

-----------------------------------------------------------------------------
(* C1: when a round over a snapshot with N targets ends, the sink holds    *)
(* exactly one row of that round for each target, N rows in all, whatever  *)
(* the outcomes of the checks were.                                        *)
C1_OneResultPerTarget ==
    RoundEnded =>
        /\ Len(website_checks) - round_base = Cardinality(DOMAIN config_store.websites)
        /\ \A n \in DOMAIN config_store.websites : Cardinality(RowsFor(n)) = 1

-----------------------------------------------------------------------------
(* C2: next_call is the anchor set at construction plus the periods of the *)
(* snapshots of the rounds run so far: each completed round adds exactly   *)
(* its snapshot's check_period, however long the round took.               *)
C2_DriftCorrected ==
    IF pc \in {"dispatch", "join", "advance"}
    THEN next_call + config_store.check_period = anchor0 + period_sum
    ELSE next_call = anchor0 + period_sum

(* a round that took longer than its period has been accounted for: the   *)
(* new anchor already lies in the past                                     *)
C2_Witness == pc = "timer" /\ cycle >= 1 /\ now > next_call

-----------------------------------------------------------------------------
(* C3: the constructor resolves check_period by the precedence table:      *)
(* without defer, override if positive, else stored if positive, else the  *)
(* default; with defer, stored if positive, else override if positive,     *)
(* else the default; a candidate that is missing, is no integer, or is not *)
(* positive counts as absent.                                              *)
IsPositiveInteger(x) == x.kind \in {"int", "numstr"} /\ x.n > 0

PrecedenceTable(override, stored, defer) ==
    LET first == IF defer THEN stored ELSE override
        second == IF defer THEN override ELSE stored
    IN  IF IsPositiveInteger(first) THEN first.n
        ELSE IF IsPositiveInteger(second) THEN second.n
        ELSE 3600

StoredOf(doc) == IF "check_period" \in DOMAIN doc THEN doc["check_period"] ELSE PyMissing

C3_Precedence ==
    ~last_load.raised =>
        last_load.snapshot.check_period =
            PrecedenceTable(last_load.check_period, StoredOf(last_load.file.doc),
                            last_load.defer)

-----------------------------------------------------------------------------
(* C4: the check_period of the current snapshot is a positive integer, after *)
(* construction and after every hot reload.                                  *)
C4_PeriodPositive == config_store.check_period \in Nat \ {0}

(* a hot reload of a document whose stored period is no positive integer *)
C4_Witness ==
    /\ pc = "start_checks"
    /\ cycle = 2
    /\ last_load.defer
    /\ ~is_positive_int(StoredOf(last_load.file.doc))

-----------------------------------------------------------------------------
(* C5: the websites of a snapshot are exactly the entries of the document   *)
(* that have a url, each unchanged; check_period is never among them; the   *)
(* document {"a": {"url": "http://x"}, "b": {}, "check_period": 30} loaded   *)
(* with override 0 and without defer gives targets {a} and period 30.       *)
ExampleDoc ==
    [k \in {"a", "b", "check_period"} |->
        CASE k = "a" -> [url |-> "http://x"]
          [] k = "b" -> EmptyDict
          [] OTHER -> PyInt(30)]

C5_OnlyEntriesWithUrl ==
    ~last_load.raised =>
        LET doc == last_load.file.doc
            websites == last_load.snapshot.websites
        IN  /\ "check_period" \notin DOMAIN websites
            /\ DOMAIN websites =
                   {k \in DOMAIN doc \ {"check_period"} : "url" \in DOMAIN doc[k]}
            /\ \A k \in DOMAIN websites : websites[k] = doc[k]
            /\ (doc = ExampleDoc /\ last_load.check_period = PyInt(0) /\ ~last_load.defer)
                   => (DOMAIN websites = {"a"} /\ last_load.snapshot.check_period = 30)

(* the example document has been loaded with override 0 and without defer *)
C5_Witness ==
    /\ ~last_load.raised
    /\ last_load.file.doc = ExampleDoc
    /\ last_load.check_period = PyInt(0)
    /\ ~last_load.defer
    /\ config_store = last_load.snapshot
    /\ DOMAIN config_store.websites = {"a"}

-----------------------------------------------------------------------------
(* C6: a worker's failure stays in its thread: while a round runs the      *)
(* control flow is never stuck unless a thread is still alive, every live  *)
(* thread can take its next step whatever its siblings did, and when the   *)
(* loop that starts the threads is over every target of the snapshot has   *)
(* its thread.                                                             *)
Alive(n) == workers[n].st \in {"started", "responded"}

C6_Isolation ==
    /\ pc \in {"dispatch", "join"} =>
           \/ ENABLED (DispatchOne \/ DispatchDone \/ JoinOne \/ JoinDone)
           \/ \E n \in Names : Alive(n)
    /\ \A n \in Names :
           /\ workers[n].st = "started" => ENABLED WorkerRequest(n)
           /\ workers[n].st = "responded" => ENABLED WorkerCheck(n)
    /\ pc = "join" =>
           /\ {threads[i] : i \in 1..Len(threads)} = DOMAIN config_store.websites
           /\ Len(threads) = Cardinality(DOMAIN config_store.websites)
    /\ RoundEnded => \A n \in DOMAIN config_store.websites : Ended(n)

(* a round has ended in which one thread died of an exception and its *)
(* sibling returned                                                    *)
C6_Witness ==
    /\ RoundEnded
    /\ \E n, m \in DOMAIN config_store.websites :
           workers[n].st = "raised" /\ workers[m].st = "returned"

-----------------------------------------------------------------------------
(* C7: a check whose GET failed at the transport level has written exactly *)
(* one row, with the error message set and with status, response time and  *)
(* requirements absent; no requirement check was made.                     *)
C7_TransportFailureRow ==
    \A n \in Names :
        EndedWithFailure(n) =>
            /\ Cardinality(RowsFor(n)) = 1
            /\ \A i \in RowsFor(n) :
                   /\ website_checks[i].error.has
                   /\ ~website_checks[i].status.has
                   /\ ~website_checks[i].response_time.has
                   /\ ~website_checks[i].requirements.has
            /\ workers[n].exc \notin {"TypeError", "error", "RequirementsNotFulfilled"}

-----------------------------------------------------------------------------
(* C8: a check whose GET delivered a response, of whatever status, has     *)
(* written a row that carries the response's status and its response time. *)
C8_ResponseRow ==
    \A n \in Names :
        EndedWithResponse(n) =>
            \E i \in RowsFor(n) :
                /\ website_checks[i].status = Some(workers[n].response.status)
                /\ website_checks[i].response_time = Some(workers[n].response.elapsed)

-----------------------------------------------------------------------------
(* C9: for a target without a content requirement, the check of a received *)
(* response has recorded requirements met, whatever the body.              *)
C9_NoRequirementMet ==
    \A n \in Names :
        (EndedWithResponse(n) /\ ~workers[n].content_requirements.has) =>
            \E i \in RowsFor(n) : website_checks[i].requirements = Some(1)

-----------------------------------------------------------------------------
(* C10: for a target with a content requirement, the check of a received   *)
(* response has written a row with status and response time, without an    *)
(* error message, whose requirements flag is 1 exactly when the            *)
(* requirement is found in the decoded body, letter case ignored.          *)
Found(pattern, body) ==
    \E i \in 0..(Len(Decode(body)) - Len(pattern)) :
        LowerSeq(SubSeq(Decode(body), i + 1, i + Len(pattern))) = LowerSeq(pattern)

C10_RequirementRow ==
    \A n \in Names :
        (EndedWithResponse(n) /\ workers[n].content_requirements.has) =>
            \E i \in RowsFor(n) :
                /\ website_checks[i].status.has
                /\ website_checks[i].response_time.has
                /\ ~website_checks[i].error.has
                /\ website_checks[i].requirements =
                       Some(IF Found(workers[n].content_requirements.v,
                                     workers[n].response.content)
                            THEN 1 ELSE 0)

-----------------------------------------------------------------------------
(* C11: no exception leaves a worker: whatever the outcome of the check    *)
(* (transport failure, any status, requirement absent, unmatched or no     *)
(* regular expression), the thread of _perform_checks ends by returning.   *)
C11_NoExceptionLeavesWorker == \A n \in Names : workers[n].st # "raised"

-----------------------------------------------------------------------------
(* C12: _start_checks is synchronous. While any thread of a round exists   *)
(* the round-start marker of that round is the last marker of the log;     *)
(* the threads started are distinct targets of the snapshot, one each, and *)
(* all of them once the start loop is over; the round-end marker is        *)
(* written, and the call returns, only in a step before which every target *)
(* had its thread and every thread had ended.                              *)
ThreadSet == {threads[i] : i \in 1..Len(threads)}

C12_RoundState ==
    /\ \A n \in Names :
           workers[n].st # "idle" =>
               /\ Len(log) = 2 * cycle - 1
               /\ log[Len(log)] = "start"
               /\ n \in ThreadSet
    /\ \A i, j \in 1..Len(threads) : threads[i] = threads[j] => i = j
    /\ ThreadSet \subseteq DOMAIN config_store.websites
    /\ \A n \in ThreadSet : workers[n].st # "idle"
    /\ pc = "join" => ThreadSet = DOMAIN config_store.websites

C12_MarkerStep ==
    /\ log' = Append(log, "start") => \A n \in Names : workers'[n].st = "idle"
    /\ log' = Append(log, "end") =>
           /\ ThreadSet = DOMAIN config_store.websites
           /\ \A n \in ThreadSet : workers[n].st \in {"returned", "raised"}
           /\ log[Len(log)] = "start"
           /\ pc = "join" /\ pc' = "advance"
    /\ (pc = "join" /\ pc' # "join") => log' = Append(log, "end")

C12_Synchronous == [](C12_RoundState) /\ [][C12_MarkerStep]_vars

(* the second round has joined its two threads and is about to write the *)
(* round-end marker                                                       *)
C12_Witness ==
    /\ pc = "join"
    /\ cycle = 2
    /\ Len(threads) = 2
    /\ joined = 2
    /\ log = <<"start", "end", "start">>

-----------------------------------------------------------------------------
(* C13: a failed reload does not stop the scheduler: after a reload that   *)
(* raised, the control flow of start_watch goes on (the timer is armed     *)
(* again and a later cycle reloads and runs a round); it is never over.    *)
C13_SurvivesFailedReload == last_load.raised => pc # "crashed"

-----------------------------------------------------------------------------
(* C14: a reload that fails leaves config_store as it was: the same        *)
(* targets and the same check_period, never a half-built snapshot.         *)
C14_FailedReloadStep ==
    (pc = "hot_load" /\ last_load'.raised) =>
        /\ config_store' = config_store
        /\ config_store'.check_period > 0

C14_FailedReloadKeepsSnapshot == [][C14_FailedReloadStep]_vars

(* the reload of the second cycle has failed over a snapshot with two *)
(* targets                                                             *)
C14_Witness ==
    /\ pc = "crashed"
    /\ cycle = 2
    /\ last_load.raised
    /\ DOMAIN config_store.websites = Names

-----------------------------------------------------------------------------
(* C15: building a snapshot leaves the dict it is given as it was: after   *)
(* set_check_period_and_web_data the dict has the keys and values it had   *)
(* before, its check_period key and its entries without url included.      *)
C15_InputUnchanged == ~last_load.raised => last_load.configs = last_load.file.doc

-----------------------------------------------------------------------------
(* C16: insert_webcheck_config is an upsert. A call for a name without a   *)
(* row appends one row with the name, url and content; a call for a name   *)
(* whose row differs in url or content rewrites that row; a call for a     *)
(* name whose row is identical leaves the table as it is; rows of other    *)
(* names never change; and the same call once more changes nothing.        *)
RowsOf(table, webname) == {i \in 1..Len(table) : table[i].webname = webname}

C16_UpsertStep ==
    (last_upsert'.has /\ <<website_configs, last_upsert, latest>>' # db_vars) =>
        LET c == last_upsert'.v
            old == website_configs
            new == website_configs'
            same(i) == old[i].url = c.url /\ old[i].content = c.content
        IN  /\ RowsOf(old, c.webname) = {} =>
                /\ Len(new) = Len(old) + 1
                /\ \A i \in 1..Len(old) : new[i] = old[i]
                /\ new[Len(new)].webname = c.webname
                /\ new[Len(new)].url = c.url
                /\ new[Len(new)].content = c.content
            /\ (RowsOf(old, c.webname) # {} /\ \E i \in RowsOf(old, c.webname) : ~same(i)) =>
                /\ Len(new) = Len(old)
                /\ \A i \in RowsOf(old, c.webname) :
                       /\ new[i].webname = c.webname
                       /\ new[i].id = old[i].id
                       /\ new[i].url = c.url
                       /\ new[i].content = c.content
            /\ (RowsOf(old, c.webname) # {} /\ \A i \in RowsOf(old, c.webname) : same(i)) =>
                new = old
            /\ \A i \in 1..Len(old) : old[i].webname # c.webname => new[i] = old[i]
            /\ insert_webcheck_config(new, c.webname, c.url, c.content) = new

C16_Upsert == [][C16_UpsertStep]_vars

(* the row of a, inserted before the row of b, now carries the url and the *)
(* content of a later call for a                                           *)
C16_Witness ==
    /\ Len(website_configs) = 2
    /\ website_configs[1] = ConfigRow(1, "a", "http://y", Some(<<"o", "k">>))
    /\ website_configs[2].webname = "b"
    /\ last_upsert = Some([webname |-> "a", url |-> "http://y", content |-> Some(<<"o", "k">>)])
    /\ latest["b"].has

-----------------------------------------------------------------------------
(* C17: constructing the Monitor writes every target of the initial        *)
(* snapshot to website_configs: before the first round each of them has    *)
(* its row, with its url and content.                                      *)
C17_HydratedAtConstruction ==
    cycle = 0 =>
        \A n \in DOMAIN config_store.websites :
            \E i \in RowsOf(website_configs, n) :
                website_configs[i].url = config_store.websites[n].url

-----------------------------------------------------------------------------
(* C18: every reload that succeeds is made with defer_to_configs = True    *)
(* and the check_period of the snapshot it replaces, while no worker       *)
(* exists; the round runs on the snapshot of that reload; the period of    *)
(* the cycle is the stored period of the document read by the reload when  *)
(* that is a positive integer and the period of the cycle before           *)
(* otherwise; the targets are the entries with a url of that document.     *)
TargetsOf(doc) ==
    [n \in {k \in DOMAIN doc \ {"check_period"} : "url" \in DOMAIN doc[k]} |-> doc[n]]

C18_ReloadStep ==
    (pc = "hot_load" /\ pc' = "start_checks") =>
        /\ last_load'.defer
        /\ last_load'.check_period = PyInt(config_store.check_period)
        /\ last_load'.file = file
        /\ config_store' = last_load'.snapshot
        /\ config_store'.check_period =
               IF IsPositiveInteger(StoredOf(file.doc))
               THEN StoredOf(file.doc).n
               ELSE config_store.check_period
        /\ config_store'.websites = TargetsOf(file.doc)

C18_RoundState ==
    /\ pc \in {"hot_load", "start_checks"} => \A n \in Names : workers[n].st = "idle"
    /\ pc \in {"dispatch", "join"} =>
        /\ config_store = last_load.snapshot
        /\ \A n \in Names :
               workers[n].st # "idle" =>
                   /\ n \in DOMAIN config_store.websites
                   /\ workers[n].url = config_store.websites[n].url

C18_ReloadEveryCycle == [](C18_RoundState) /\ [][C18_ReloadStep]_vars

-----------------------------------------------------------------------------
(* C19: rounds never overlap. The workers that are alive were started by   *)
(* the round in progress; config_store is replaced, next_call advanced and *)
(* the timer armed only when no worker is alive; _start_checks returns     *)
(* only when none is alive; and the timer is armed for                     *)
(* max(0, next_call - now), so a round that outlasted the period is        *)
(* followed by the next cycle at once, after it has ended.                 *)
C19_RoundState ==
    /\ \A n \in Names : Alive(n) => (pc \in {"dispatch", "join"} /\ n \in ThreadSet)
    /\ pc = "timer" => timer_at >= next_call

C19_Step ==
    /\ (\/ config_store' # config_store
        \/ next_call' # next_call
        \/ timer_at' # timer_at
        \/ last_load' # last_load
        \/ (pc = "join" /\ pc' # "join")
        \/ pc' = "hot_load") =>
            \A n \in Names : ~Alive(n)
    /\ (pc = "arm" /\ pc' = "timer") =>
            timer_at' - now = (IF next_call - now > 0 THEN next_call - now ELSE 0)
    /\ (pc = "timer" /\ pc' = "hot_load") => now >= timer_at

C19_NoOverlap == [](C19_RoundState) /\ [][C19_Step]_vars

(* the first round outlasted the period, the timer fired at once, and a *)
(* worker of the second round is running                                *)
C19_Witness ==
    /\ pc = "join"
    /\ cycle = 2
    /\ timer_at > next_call
    /\ \E n \in Names : Alive(n)

-----------------------------------------------------------------------------
(* C20: after any sequence of insert_webcheck_config calls on a table that *)
(* started empty, a webname has at most one row, it has a row exactly when *)
(* a call was made for it, and the row carries the url and content of the  *)
(* latest call for the name.                                               *)
C20_OneRowPerName ==
    \A n \in Names :
        /\ Cardinality(RowsOf(website_configs, n)) <= 1
        /\ latest[n].has <=> RowsOf(website_configs, n) # {}
        /\ \A i \in RowsOf(website_configs, n) :
               /\ website_configs[i].url = latest[n].v.url
               /\ website_configs[i].content = latest[n].v.content

(* both names have a row, and the row of a was rewritten by a call that *)
(* came after the insertion of b                                         *)
C20_Witness ==
    /\ Len(website_configs) = 2
    /\ website_configs[1].webname = "a"
    /\ website_configs[2].webname = "b"
    /\ last_upsert.has
    /\ last_upsert.v.webname = "a"
    /\ website_configs[1].url = "http://y"
    /\ website_configs[1].content = None

====
